---------------------------- MODULE Spec2Model ----------------------------
(***************************************************************************)
(* The I/O capacity throttle and its background flusher (capacity server). *)
(*                                                                         *)
(* State: the connection's capacity fields, the statistics the throttle    *)
(* maintains, the capacity condition variable, the capacity server thread, *)
(* one thread that calls __wt_capacity_server_create/_destroy, and the     *)
(* threads that call __wt_capacity_throttle.  Every access to a shared     *)
(* field is a step of its own, so that the threads interleave as the       *)
(* lock-free code lets them.                                               *)
(*                                                                         *)
(* The code counts time in nanoseconds, in 64 bits.  The model counts it  *)
(* in units of 10 nanoseconds, so that the clocks of a behaviour fit the   *)
(* model checker's integers: WT_BILLION is the second and WT_THOUSAND the  *)
(* microsecond in that unit.  The wall clock starts seconds after the      *)
(* epoch, far enough that no clock of the model wraps (TypeOK), as none    *)
(* does with the epoch decades away.                                       *)
(***************************************************************************)
EXTENDS Integers, Sequences, FiniteSets, TLC

(***************************************************************************)
(* Program constants.                                                      *)
(***************************************************************************)
WT_CAPACITY_PCT == 10
WT_CAPACITY_SLEEP_CUTOFF_US == 100
WT_CAP_CKPT == 10
WT_CAP_EVICT == 60
WT_CAP_LOG == 20
WT_CAP_READ == 60
\* One second and one microsecond, in the model's unit of 10 nanoseconds.
WT_BILLION == 100000000
WT_THOUSAND == 100
\* The engine's minimum throughput (1MB/s); its definition is outside the file.
WT_THROTTLE_MIN == 1048576

(***************************************************************************)
(* Bounds of the model.                                                    *)
(***************************************************************************)
\* Throttle calls made in one behaviour, over all threads.
MaxCalls == 2
\* Calls of __wt_capacity_server_create / _destroy made in one behaviour.
MaxLifeOps == 2
\* Times the wall clock advances in one behaviour.
MaxTicks == 1
\* The wall clock at the start, and how far one tick advances it.
NowStart == 400000000
TickNs == 60000000

\* The bytes of the throttle call made before a behaviour that starts warm.
WarmBytes == 4096

Threads == {"t1", "t2"}
Types == {"WT_THROTTLE_CKPT", "WT_THROTTLE_EVICT", "WT_THROTTLE_LOG",
          "WT_THROTTLE_READ"}
\* The bytes arguments of the throttle calls.
Bytes == {4096, 150000}
\* The io_capacity.total values of the configure calls: uncapped, below the
\* minimum, the minimum, and one whose capacities do not sum to a multiple
\* of 100.
Totals == {0, WT_THROTTLE_MIN - 1, WT_THROTTLE_MIN, 10000050}

NULL == "NULL"

(***************************************************************************)
(* WT_CAPACITY and WT_RESERVATION_NS.                                      *)
(***************************************************************************)
WT_CAPACITY(total, pct) == (total * pct) \div 100

\* <<quotient, remainder>> of a * b by c, by halving a: the 64-bit product
\* of the code is exact for bytes < 16GB (asserted in the throttle), and is
\* computed here without an intermediate value beyond 2 * c + b.
RECURSIVE MulDivQR(_, _, _)
MulDivQR(a, b, c) ==
    IF a = 0 THEN <<0, 0>>
    ELSE LET h == MulDivQR(a \div 2, b, c)
             r == 2 * h[2] + (a % 2) * b
         IN  <<2 * h[1] + (r \div c), r % c>>

WT_RESERVATION_NS(bytes, capacity) == MulDivQR(bytes, WT_BILLION, capacity)[1]


(***************************************************************************)
(* State.                                                                  *)
(***************************************************************************)
VARIABLES
    conn,      \* the WT_CONNECTION_IMPL fields the capacity code reads or writes
    stats,     \* the connection statistics of the capacity code
    cond,      \* the capacity condition variable: is a signal pending
    server,    \* the capacity server thread: its position and its local
    life,      \* the thread calling server_create / server_destroy
    thr,       \* the threads calling __wt_capacity_throttle, with their locals
    clock,     \* the wall clock __wt_epoch reads
    budget,    \* what is left of MaxCalls, MaxLifeOps and MaxTicks
    hist,      \* history: the lifecycle calls that returned, with the state around them
    obs        \* history: what the throttle calls and the signals did

vars == <<conn, stats, cond, server, life, thr, clock, budget, hist, obs>>

RUN == "WT_CONN_SERVER_CAPACITY"
READONLY == "WT_CONN_READONLY"
RECOVERING == "WT_CONN_RECOVERING"

\* The connection field holding a throttle type's capacity / reservation.
CapField(type) ==
    CASE type = "WT_THROTTLE_CKPT"  -> "capacity_ckpt"
      [] type = "WT_THROTTLE_EVICT" -> "capacity_evict"
      [] type = "WT_THROTTLE_LOG"   -> "capacity_log"
      [] type = "WT_THROTTLE_READ"  -> "capacity_read"

ResField(type) ==
    CASE type = "WT_THROTTLE_CKPT"  -> "reservation_ckpt"
      [] type = "WT_THROTTLE_EVICT" -> "reservation_evict"
      [] type = "WT_THROTTLE_LOG"   -> "reservation_log"
      [] type = "WT_THROTTLE_READ"  -> "reservation_read"

CallsField(type) ==
    CASE type = "WT_THROTTLE_CKPT"  -> "capacity_ckpt_calls"
      [] type = "WT_THROTTLE_EVICT" -> "capacity_evict_calls"
      [] type = "WT_THROTTLE_LOG"   -> "capacity_log_calls"
      [] type = "WT_THROTTLE_READ"  -> "capacity_read_calls"

ResFields == {"reservation_ckpt", "reservation_evict", "reservation_log",
              "reservation_read", "reservation_total"}

\* The connection is allocated zeroed; the flags are those of the open.
ConnInit(flags) ==
    [ flags |-> flags,
      capacity_total |-> 0, capacity_ckpt |-> 0, capacity_evict |-> 0,
      capacity_log |-> 0, capacity_read |-> 0, capacity_threshold |-> 0,
      capacity_written |-> 0, capacity_signalled |-> FALSE,
      capacity_session |-> NULL, capacity_cond |-> NULL,
      capacity_tid_set |-> FALSE, capacity_usecs |-> 0,
      reservation_ckpt |-> 0, reservation_evict |-> 0, reservation_log |-> 0,
      reservation_read |-> 0, reservation_total |-> 0 ]

StatsInit ==
    [ capacity_bytes_written |-> 0, capacity_bytes_read |-> 0,
      capacity_ckpt_calls |-> 0, capacity_evict_calls |-> 0,
      capacity_log_calls |-> 0, capacity_read_calls |-> 0,
      capacity_signal_calls |-> 0, capacity_signals |-> 0,
      capacity_threshold |-> 0 ]

\* The locals of __wt_capacity_throttle, before the call and after it.
ThrIdle ==
    [ pc |-> "idle", type |-> NULL, bytes |-> 0, capacity |-> 0,
      total_capacity |-> 0, now_ns |-> 0, res_value |-> 0,
      res_total_value |-> 0, steal |-> NULL, steal_capacity |-> 0,
      best_res |-> 0, new_res |-> 0, res_len |-> 0,
      passes |-> 0, cas |-> 0, again |-> 0 ]

NoSnapshot ==
    [ capacity_total |-> 0, capacity_ckpt |-> 0, capacity_evict |-> 0,
      capacity_log |-> 0, capacity_read |-> 0, capacity_threshold |-> 0,
      run |-> FALSE, session |-> FALSE, cond |-> FALSE, task |-> FALSE ]

\* The lifecycle thread between calls; ret is the ret of server_destroy.
LifeIdle == [ pc |-> "idle", op |-> NULL, total |-> 0, ret |-> "0", pre |-> NoSnapshot ]

ObsInit ==
    [ nonread_bytes |-> 0,    \* bytes of the non-READ calls made
      accounted_bytes |-> 0,  \* bytes of the non-READ calls past the early exit
      wakes |-> 0,            \* signals by __wt_capacity_signal since the server last cleared capacity_signalled
      fsyncs |-> 0,           \* __wt_fsync_all_background calls that returned 0
      null_signal |-> FALSE,  \* __wt_cond_signal was applied to a NULL capacity_cond
      assert_failed |-> FALSE,\* a WT_ASSERT of the throttle did not hold
      last |-> [how |-> "none", sleep_us |-> 0] ]  \* how the last returned throttle call ended

\* The start of a behaviour: the connection c, the server at spc, and the
\* bytes written by the one throttle call of the type made before it.
InitAfter(c, spc, type) ==
    /\ conn = c
    /\ stats = [StatsInit EXCEPT
                   !.capacity_threshold = conn.capacity_threshold,
                   !.capacity_bytes_written = conn.capacity_written,
                   ![CallsField(type)] = IF conn.capacity_written # 0 THEN 1 ELSE 0,
                   !.capacity_signal_calls = IF conn.capacity_written # 0 THEN 1 ELSE 0,
                   !.capacity_signals = IF conn.capacity_signalled THEN 1 ELSE 0]
    /\ cond = [pending |-> conn.capacity_signalled]
    /\ server = [pc |-> spc]
    /\ life = LifeIdle
    /\ thr = [t \in Threads |-> ThrIdle]
    /\ clock = NowStart
    /\ budget = [calls |-> MaxCalls, life |-> MaxLifeOps, ticks |-> MaxTicks]
    /\ hist = <<>>
    /\ obs = [ObsInit EXCEPT !.nonread_bytes = conn.capacity_written,
                             !.accounted_bytes = conn.capacity_written,
                             !.wakes = IF conn.capacity_signalled THEN 1 ELSE 0]

\* The same for a connection of conns, the call before it a checkpoint's.
InitFrom(conns, spc) == \E c \in conns : InitAfter(c, spc, "WT_THROTTLE_CKPT")

\* The connection as opened: nothing configured, no server.
Init == InitFrom({ConnInit(f) : f \in {{}, {RECOVERING}, {READONLY}}}, "none")

\* What a lifecycle call may change, as recorded around the call.
Snapshot ==
    [ capacity_total |-> conn.capacity_total,
      capacity_ckpt |-> conn.capacity_ckpt,
      capacity_evict |-> conn.capacity_evict,
      capacity_log |-> conn.capacity_log,
      capacity_read |-> conn.capacity_read,
      capacity_threshold |-> conn.capacity_threshold,
      run |-> RUN \in conn.flags,
      session |-> conn.capacity_session # NULL,
      cond |-> conn.capacity_cond # NULL,
      task |-> server.pc # "none" ]


(***************************************************************************)
(* __capacity_config.                                                      *)
(***************************************************************************)
\* WT_CAPACITY_CHK: the value is refused.
CapacityChkFails(v) == v # 0 /\ v < WT_THROTTLE_MIN

\* The threshold with the multiplication first.
CapacityThreshold_MultiplyFirst(ckpt, evict, log) ==
    ((ckpt + evict + log) * WT_CAPACITY_PCT) \div 100

\* The threshold __capacity_config stores: the division comes first.
CapacityThreshold(ckpt, evict, log) ==
    ((ckpt + evict + log) \div 100) * WT_CAPACITY_PCT

\* A lifecycle call returns r: the call is added to the history with the
\* state it found and the state it leaves.
LifeReturn(r) ==
    /\ life' = LifeIdle
    /\ hist' = Append(hist, [ op |-> life.op, total |-> life.total, ret |-> r,
                              pre |-> life.pre, post |-> Snapshot' ])

\* __wt_capacity_server_create is called: a read-only connection returns at
\* once; a running server is destroyed first; then the configuration.
Create_Call(total) ==
    /\ life.pc = "idle"
    /\ budget.life > 0
    /\ budget' = [budget EXCEPT !.life = @ - 1]
    /\ UNCHANGED <<conn, stats, cond, server, thr, clock, obs>>
    /\ IF READONLY \in conn.flags
       THEN /\ life' = LifeIdle
            /\ hist' = Append(hist, [ op |-> "create", total |-> total, ret |-> "0",
                                      pre |-> Snapshot, post |-> Snapshot ])
       ELSE /\ life' = [ pc |-> IF conn.capacity_session # NULL
                                THEN "d_clr" ELSE "cfg",
                         op |-> "create", total |-> total, ret |-> "0",
                         pre |-> Snapshot ]
            /\ hist' = hist

\* WT_CAPACITY_CHK, and the store of capacity_total.
Config_Total ==
    /\ life.pc = "cfg"
    /\ UNCHANGED <<stats, cond, server, thr, clock, budget, obs>>
    /\ IF CapacityChkFails(life.total)
       THEN /\ conn' = conn
            /\ LifeReturn("EINVAL")
       ELSE /\ conn' = [conn EXCEPT !.capacity_total = life.total]
            /\ life' = [life EXCEPT !.pc = IF life.total # 0 THEN "cfg_ckpt"
                                           ELSE "cfg_threshold"]
            /\ hist' = hist

\* One of the four stores of a subsystem's capacity.
Config_Class(at, field, pct, next) ==
    /\ life.pc = at
    /\ conn' = [conn EXCEPT ![field] = WT_CAPACITY(life.total, pct)]
    /\ life' = [life EXCEPT !.pc = next]
    /\ UNCHANGED <<stats, cond, server, thr, clock, budget, hist, obs>>

Config_Ckpt == Config_Class("cfg_ckpt", "capacity_ckpt", WT_CAP_CKPT, "cfg_evict")
Config_Evict == Config_Class("cfg_evict", "capacity_evict", WT_CAP_EVICT, "cfg_log")
Config_Log == Config_Class("cfg_log", "capacity_log", WT_CAP_LOG, "cfg_read")
Config_Read == Config_Class("cfg_read", "capacity_read", WT_CAP_READ, "cfg_threshold")

\* The store of capacity_threshold and of its statistic; back in
\* server_create, the server is started when the threshold is not 0.
Config_Threshold ==
    /\ life.pc = "cfg_threshold"
    /\ LET th == CapacityThreshold(conn.capacity_ckpt, conn.capacity_evict,
                                   conn.capacity_log)
       IN  /\ conn' = [conn EXCEPT !.capacity_threshold = th]
           /\ stats' = [stats EXCEPT !.capacity_threshold = th]
           /\ UNCHANGED <<cond, server, thr, clock, budget, obs>>
           /\ IF th # 0
              THEN life' = [life EXCEPT !.pc = "start"] /\ hist' = hist
              ELSE LifeReturn("0")

(***************************************************************************)
(* __capacity_server_start.                                                *)
(***************************************************************************)
\* Nothing to do with a session already there; else the run flag is set.
Start_Flag ==
    /\ life.pc = "start"
    /\ UNCHANGED <<stats, cond, server, thr, clock, budget, obs>>
    /\ IF conn.capacity_session # NULL
       THEN conn' = conn /\ LifeReturn("0")
       ELSE /\ conn' = [conn EXCEPT !.flags = @ \cup {RUN}]
            /\ life' = [life EXCEPT !.pc = "start_session"]
            /\ hist' = hist

\* __wt_open_internal_session, which may fail.
Start_Session ==
    /\ life.pc = "start_session"
    /\ UNCHANGED <<stats, cond, server, thr, clock, budget, obs>>
    /\ \E ok \in BOOLEAN :
          IF ok
          THEN /\ conn' = [conn EXCEPT !.capacity_session = "open"]
               /\ life' = [life EXCEPT !.pc = "start_cond"]
               /\ hist' = hist
          ELSE conn' = conn /\ LifeReturn("error")

\* __wt_cond_alloc, which may fail.
Start_Cond ==
    /\ life.pc = "start_cond"
    /\ UNCHANGED <<stats, server, thr, clock, budget, obs>>
    /\ \E ok \in BOOLEAN :
          IF ok
          THEN /\ conn' = [conn EXCEPT !.capacity_cond = "alloc"]
               /\ cond' = [pending |-> FALSE]
               /\ life' = [life EXCEPT !.pc = "start_thread"]
               /\ hist' = hist
          ELSE conn' = conn /\ cond' = cond /\ LifeReturn("error")

\* __wt_thread_create, which may fail.
Start_Thread ==
    /\ life.pc = "start_thread"
    /\ UNCHANGED <<conn, stats, cond, thr, clock, budget, obs>>
    /\ \E ok \in BOOLEAN :
          IF ok
          THEN /\ server' = [pc |-> "wait"]
               /\ life' = [life EXCEPT !.pc = "start_tid"]
               /\ hist' = hist
          ELSE server' = server /\ LifeReturn("error")

Start_TidSet ==
    /\ life.pc = "start_tid"
    /\ conn' = [conn EXCEPT !.capacity_tid_set = TRUE]
    /\ UNCHANGED <<stats, cond, server, thr, clock, budget, obs>>
    /\ LifeReturn("0")


(***************************************************************************)
(* __wt_capacity_server_destroy.                                           *)
(***************************************************************************)
Destroy_Call ==
    /\ life.pc = "idle"
    /\ budget.life > 0
    /\ budget' = [budget EXCEPT !.life = @ - 1]
    /\ life' = [ pc |-> "d_clr", op |-> "destroy", total |-> 0, ret |-> "0",
                 pre |-> Snapshot ]
    /\ UNCHANGED <<conn, stats, cond, server, thr, clock, hist, obs>>

\* A destroy that leaves the run flag set.
Destroy_ClearFlag_KeepFlag ==
    /\ life.pc = "d_clr"
    /\ life' = [life EXCEPT !.pc = IF conn.capacity_tid_set THEN "d_signal"
                                   ELSE "d_cond"]
    /\ UNCHANGED <<conn, stats, cond, server, thr, clock, budget, hist, obs>>

\* F_CLR of the run flag; a thread that was started is signalled and joined.
Destroy_ClearFlag ==
    /\ life.pc = "d_clr"
    /\ conn' = [conn EXCEPT !.flags = @ \ {RUN}]
    /\ life' = [life EXCEPT !.pc = IF conn.capacity_tid_set THEN "d_signal"
                                   ELSE "d_cond"]
    /\ UNCHANGED <<stats, cond, server, thr, clock, budget, hist, obs>>

Destroy_Signal ==
    /\ life.pc = "d_signal"
    /\ cond' = [pending |-> TRUE]
    /\ life' = [life EXCEPT !.pc = "d_join"]
    /\ UNCHANGED <<conn, stats, server, thr, clock, budget, hist, obs>>

\* __wt_thread_join returns once the server thread has returned; ret keeps
\* its error.
Destroy_Join ==
    /\ life.pc = "d_join"
    /\ server.pc \in {"exited", "panic"}
    /\ server' = [pc |-> "none"]
    /\ conn' = [conn EXCEPT !.capacity_tid_set = FALSE]
    /\ \E r \in {"0", "error"} :
          life' = [life EXCEPT !.pc = "d_cond", !.ret = r]
    /\ UNCHANGED <<stats, cond, thr, clock, budget, hist, obs>>

\* __wt_cond_destroy frees the condition and clears the field.
Destroy_Cond ==
    /\ life.pc = "d_cond"
    /\ conn' = [conn EXCEPT !.capacity_cond = NULL]
    /\ cond' = [pending |-> FALSE]
    /\ life' = [life EXCEPT !.pc = "d_close"]
    /\ UNCHANGED <<stats, server, thr, clock, budget, hist, obs>>

\* The close of the server's session, which may fail; ret keeps the error.
Destroy_Close ==
    /\ life.pc = "d_close"
    /\ \E r \in (IF conn.capacity_session # NULL THEN {"0", "error"} ELSE {"0"}) :
          life' = [life EXCEPT !.pc = "d_null",
                               !.ret = IF @ = "0" THEN r ELSE @]
    /\ UNCHANGED <<conn, stats, cond, server, thr, clock, budget, hist, obs>>

\* A destroy that leaves capacity_session as it is.
Destroy_Null_KeepSession ==
    /\ life.pc = "d_null"
    /\ conn' = [conn EXCEPT !.capacity_tid_set = FALSE,
                            !.capacity_cond = NULL,
                            !.capacity_usecs = 0]
    /\ UNCHANGED <<stats, cond, server, thr, clock, budget, obs>>
    /\ IF life.op = "create" /\ life.ret = "0"
       THEN life' = [life EXCEPT !.pc = "cfg"] /\ hist' = hist
       ELSE LifeReturn(life.ret)

\* The four stores that clear the settings, and the return of ret: to the
\* caller, or into server_create, which goes on to configure when ret is 0.
Destroy_Null ==
    /\ life.pc = "d_null"
    /\ conn' = [conn EXCEPT !.capacity_session = NULL,
                            !.capacity_tid_set = FALSE,
                            !.capacity_cond = NULL,
                            !.capacity_usecs = 0]
    /\ UNCHANGED <<stats, cond, server, thr, clock, budget, obs>>
    /\ IF life.op = "create" /\ life.ret = "0"
       THEN life' = [life EXCEPT !.pc = "cfg"] /\ hist' = hist
       ELSE LifeReturn(life.ret)

(***************************************************************************)
(* __capacity_server, the capacity server thread.  Its three statistics    *)
(* (capacity_timeout, capacity_signalled, fsync_notyet) count its loops    *)
(* without bound and are read by nothing; they are not part of the state.  *)
(***************************************************************************)
\* A wait that returns only when signalled: no timeout.
Server_Wait_NoTimeout ==
    /\ server.pc = "wait"
    /\ cond.pending
    /\ cond' = [pending |-> FALSE]
    /\ server' = [pc |-> "run_chk"]
    /\ UNCHANGED <<conn, stats, life, thr, clock, budget, hist, obs>>

\* __wt_cond_wait_signal returns: signalled, or after its timeout of
\* WT_MILLION/10 microseconds, or at once when the run check fails.
Server_Wait ==
    /\ server.pc = "wait"
    /\ cond' = [pending |-> FALSE]
    /\ server' = [pc |-> "run_chk"]
    /\ UNCHANGED <<conn, stats, life, thr, clock, budget, hist, obs>>

\* The server leaves its loop when the run flag is clear.
Server_RunChk ==
    /\ server.pc = "run_chk"
    /\ server' = [pc |-> IF RUN \in conn.flags THEN "clear" ELSE "exited"]
    /\ UNCHANGED <<conn, stats, cond, life, thr, clock, budget, hist, obs>>

Server_Clear ==
    /\ server.pc = "clear"
    /\ conn' = [conn EXCEPT !.capacity_signalled = FALSE]
    /\ obs' = [obs EXCEPT !.wakes = 0]
    /\ server' = [pc |-> "written_chk"]
    /\ UNCHANGED <<stats, cond, life, thr, clock, budget, hist>>

Server_WrittenChk ==
    /\ server.pc = "written_chk"
    /\ server' = [pc |-> IF conn.capacity_written > conn.capacity_threshold
                         THEN "fsync" ELSE "wait"]
    /\ UNCHANGED <<conn, stats, cond, life, thr, clock, budget, hist, obs>>

\* __wt_fsync_all_background: an error panics and the thread returns.
Server_Fsync ==
    /\ server.pc = "fsync"
    /\ \E ok \in BOOLEAN :
          /\ server' = [pc |-> IF ok THEN "store" ELSE "panic"]
          /\ obs' = [obs EXCEPT !.fsyncs = IF ok THEN @ + 1 ELSE @]
    /\ UNCHANGED <<conn, stats, cond, life, thr, clock, budget, hist>>

Server_Store ==
    /\ server.pc = "store"
    /\ conn' = [conn EXCEPT !.capacity_written = 0]
    /\ server' = [pc |-> "wait"]
    /\ UNCHANGED <<stats, cond, life, thr, clock, budget, hist, obs>>


(***************************************************************************)
(* __wt_capacity_throttle.  thr[t].passes, .cas and .again count, in the   *)
(* current call, the reservation passes, the steal CASes and the jumps to  *)
(* "again".                                                                *)
(***************************************************************************)
\* The switch: the subsystem's capacity is read and its calls counted.
Throttle_Call(t, type, bytes) ==
    /\ thr[t].pc = "idle"
    /\ budget.calls > 0
    /\ budget' = [budget EXCEPT !.calls = @ - 1]
    /\ thr' = [thr EXCEPT ![t] = [ThrIdle EXCEPT !.pc = "total", !.type = type,
                  !.bytes = bytes, !.capacity = conn[CapField(type)]]]
    /\ stats' = [stats EXCEPT ![CallsField(type)] = @ + 1]
    /\ obs' = [obs EXCEPT !.nonread_bytes =
                  IF type # "WT_THROTTLE_READ" THEN @ + bytes ELSE @]
    /\ UNCHANGED <<conn, cond, server, life, clock, hist>>

Throttle_Total(t) ==
    /\ thr[t].pc = "total"
    /\ thr' = [thr EXCEPT ![t].total_capacity = conn.capacity_total,
                          ![t].pc = "exit_chk"]
    /\ UNCHANGED <<conn, stats, cond, server, life, clock, budget, hist, obs>>

\* An early exit that does not look at the recovery flag.
EarlyExit_NoRecovery(capacity, total_capacity, flags) ==
    capacity = 0 /\ total_capacity = 0

\* The early exit of the throttle.
EarlyExit(capacity, total_capacity, flags) ==
    (capacity = 0 /\ total_capacity = 0) \/ RECOVERING \in flags

\* The call returns: its locals are gone.
ThrottleReturn(t, how, sleep_us) ==
    /\ thr' = [thr EXCEPT ![t] = ThrIdle]
    /\ obs' = [obs EXCEPT !.last = [how |-> how, sleep_us |-> sleep_us]]

Throttle_ExitChk(t) ==
    /\ thr[t].pc = "exit_chk"
    /\ UNCHANGED <<conn, stats, cond, server, life, clock, budget, hist>>
    /\ IF EarlyExit(thr[t].capacity, thr[t].total_capacity, conn.flags)
       THEN ThrottleReturn(t, "early", 0)
       ELSE /\ thr' = [thr EXCEPT ![t].pc =
                          IF thr[t].type # "WT_THROTTLE_READ" THEN "written"
                          ELSE "stat_read"]
            /\ obs' = [obs EXCEPT !.accounted_bytes =
                          IF thr[t].type # "WT_THROTTLE_READ"
                          THEN @ + thr[t].bytes ELSE @]

\* __wt_atomic_addv64 of the bytes to capacity_written.
Throttle_Written(t) ==
    /\ thr[t].pc = "written"
    /\ conn' = [conn EXCEPT !.capacity_written = @ + thr[t].bytes]
    /\ thr' = [thr EXCEPT ![t].pc = "stat_written"]
    /\ UNCHANGED <<stats, cond, server, life, clock, budget, hist, obs>>

\* The statistic is left as it is.
Throttle_StatWritten_Skip(t) ==
    /\ thr[t].pc = "stat_written"
    /\ thr' = [thr EXCEPT ![t].pc = "signal"]
    /\ UNCHANGED <<conn, stats, cond, server, life, clock, budget, hist, obs>>

\* WT_STAT_CONN_INCRV of capacity_bytes_written.
Throttle_StatWritten(t) ==
    /\ thr[t].pc = "stat_written"
    /\ stats' = [stats EXCEPT !.capacity_bytes_written = @ + thr[t].bytes]
    /\ thr' = [thr EXCEPT ![t].pc = "signal"]
    /\ UNCHANGED <<conn, cond, server, life, clock, budget, hist, obs>>

Throttle_StatRead(t) ==
    /\ thr[t].pc = "stat_read"
    /\ stats' = [stats EXCEPT !.capacity_bytes_read = @ + thr[t].bytes]
    /\ thr' = [thr EXCEPT ![t].pc = "epoch"]
    /\ UNCHANGED <<conn, cond, server, life, clock, budget, hist, obs>>

(***************************************************************************)
(* __wt_capacity_signal, called by the throttle.                           *)
(***************************************************************************)
\* The test of capacity_written, capacity_threshold and capacity_signalled.
Signal_Check(t) ==
    /\ thr[t].pc = "signal"
    /\ stats' = [stats EXCEPT !.capacity_signal_calls = @ + 1]
    /\ thr' = [thr EXCEPT ![t].pc =
                  IF /\ conn.capacity_written >= conn.capacity_threshold
                     /\ ~conn.capacity_signalled
                  THEN "sig_wake" ELSE "epoch"]
    /\ UNCHANGED <<conn, cond, server, life, clock, budget, hist, obs>>

\* __wt_cond_signal of capacity_cond.
Signal_Wake(t) ==
    /\ thr[t].pc = "sig_wake"
    /\ IF conn.capacity_cond # NULL
       THEN /\ cond' = [pending |-> TRUE]
            /\ obs' = [obs EXCEPT !.wakes = @ + 1]
       ELSE /\ cond' = cond
            /\ obs' = [obs EXCEPT !.null_signal = TRUE]
    /\ thr' = [thr EXCEPT ![t].pc = "sig_publish"]
    /\ UNCHANGED <<conn, stats, server, life, clock, budget, hist>>

\* WT_PUBLISH(capacity_signalled, true).
Signal_Publish(t) ==
    /\ thr[t].pc = "sig_publish"
    /\ conn' = [conn EXCEPT !.capacity_signalled = TRUE]
    /\ stats' = [stats EXCEPT !.capacity_signals = @ + 1]
    /\ thr' = [thr EXCEPT ![t].pc = "epoch"]
    /\ UNCHANGED <<cond, server, life, clock, budget, hist, obs>>

\* The two assertions (every bytes of the model is below 16GB), and
\* __wt_epoch.
Throttle_Epoch(t) ==
    /\ thr[t].pc = "epoch"
    /\ thr' = [thr EXCEPT ![t].now_ns = clock, ![t].pc = "reserve"]
    /\ obs' = [obs EXCEPT !.assert_failed = @ \/ thr[t].capacity = 0]
    /\ UNCHANGED <<conn, stats, cond, server, life, clock, budget, hist>>


(***************************************************************************)
(* __capacity_reserve: the atomic add, then the drift store.               *)
(***************************************************************************)
\* The clock is stale: more than a second behind now.
Stale(now_ns, res_value) == now_ns > res_value /\ now_ns - res_value > WT_BILLION

\* The reservation clock and the capacity of the reserve at this position:
\* the subsystem's first, then the total's.
ReserveField(t) ==
    IF thr[t].pc \in {"reserve", "drift"} THEN ResField(thr[t].type)
    ELSE "reservation_total"

\* The subsystem's capacity for the total's reserve too.
ReserveCapacity_Class(t) == thr[t].capacity

ReserveCapacity(t) ==
    IF thr[t].pc \in {"reserve", "drift"} THEN thr[t].capacity
    ELSE thr[t].total_capacity

\* __wt_atomic_add64 of the slot, or now_ns for a capacity of 0.
Reserve_Add(t) ==
    /\ thr[t].pc \in {"reserve", "reserve_total"}
    /\ LET own == thr[t].pc = "reserve"
           capacity == ReserveCapacity(t)
           res_len == IF capacity # 0
                      THEN WT_RESERVATION_NS(thr[t].bytes, capacity) ELSE 0
           res_value == IF capacity # 0 THEN conn[ReserveField(t)] + res_len
                        ELSE thr[t].now_ns
           drift == capacity # 0 /\ Stale(thr[t].now_ns, res_value)
       IN  /\ conn' = IF capacity # 0
                      THEN [conn EXCEPT ![ReserveField(t)] = res_value]
                      ELSE conn
           /\ thr' = [thr EXCEPT
                 ![t].res_len = res_len,
                 ![t].res_value = IF own THEN res_value ELSE @,
                 ![t].res_total_value = IF own THEN @ ELSE res_value,
                 ![t].passes = IF own THEN @ + 1 ELSE @,
                 ![t].pc = IF own THEN (IF drift THEN "drift" ELSE "reserve_total")
                           ELSE (IF drift THEN "drift_total" ELSE "steal_chk")]
    /\ UNCHANGED <<stats, cond, server, life, clock, budget, hist, obs>>

\* __wt_atomic_store64 of a stale clock to within a second of now.
Reserve_Drift(t) ==
    /\ thr[t].pc \in {"drift", "drift_total"}
    /\ conn' = [conn EXCEPT ![ReserveField(t)] =
                   thr[t].now_ns - WT_BILLION + thr[t].res_len]
    /\ thr' = [thr EXCEPT ![t].pc = IF thr[t].pc = "drift" THEN "reserve_total"
                                    ELSE "steal_chk"]
    /\ UNCHANGED <<stats, cond, server, life, clock, budget, hist, obs>>

(***************************************************************************)
(* The steal.                                                              *)
(***************************************************************************)
\* The test without "steal == NULL": a steal may be tried again.
StealWanted_Again(l) ==
    /\ l.res_value > l.now_ns
    /\ l.res_total_value < l.now_ns
    /\ l.total_capacity # 0

\* The test that opens the steal phase.
StealWanted(l) ==
    /\ l.res_value > l.now_ns
    /\ l.res_total_value < l.now_ns
    /\ l.steal = NULL
    /\ l.total_capacity # 0

Steal_Check(t) ==
    /\ thr[t].pc = "steal_chk"
    /\ thr' = IF StealWanted(thr[t])
              THEN [thr EXCEPT ![t].best_res = thr[t].now_ns - WT_BILLION \div 2,
                               ![t].pc = "scan_ckpt"]
              ELSE [thr EXCEPT ![t].pc = "wait"]
    /\ UNCHANGED <<conn, stats, cond, server, life, clock, budget, hist, obs>>

\* One of the four tests of another subsystem's clock against best_res.
Steal_Scan(t, at, type, next) ==
    /\ thr[t].pc = at
    /\ LET this_res == conn[ResField(type)]
           take == thr[t].type # type /\ this_res < thr[t].best_res
           steal == IF take THEN type ELSE thr[t].steal
       IN  thr' = [thr EXCEPT
                 ![t].steal = steal,
                 ![t].steal_capacity = IF take THEN conn[CapField(type)] ELSE @,
                 ![t].best_res = IF take THEN this_res ELSE @,
                 ![t].pc = IF next # "cas" THEN next
                           ELSE IF steal # NULL THEN "cas" ELSE "wait"]
    /\ UNCHANGED <<conn, stats, cond, server, life, clock, budget, hist, obs>>

Steal_ScanCkpt(t) == Steal_Scan(t, "scan_ckpt", "WT_THROTTLE_CKPT", "scan_evict")
Steal_ScanEvict(t) == Steal_Scan(t, "scan_evict", "WT_THROTTLE_EVICT", "scan_log")
Steal_ScanLog(t) == Steal_Scan(t, "scan_log", "WT_THROTTLE_LOG", "scan_read")
Steal_ScanRead(t) == Steal_Scan(t, "scan_read", "WT_THROTTLE_READ", "cas")

\* The victim's new clock: a sixteenth of a second and the caller's bytes.
NewRes(l) ==
    (IF l.best_res < l.now_ns - WT_BILLION /\ l.now_ns > WT_BILLION
     THEN l.now_ns - WT_BILLION ELSE l.best_res)
    + WT_BILLION \div 16 + WT_RESERVATION_NS(l.bytes, l.steal_capacity)

\* __wt_atomic_casv64 of the victim's clock.  A steal_capacity of 0 fails
\* the assertion and divides by 0: the call ends there.
Steal_Cas(t) ==
    /\ thr[t].pc = "cas"
    /\ UNCHANGED <<stats, cond, server, life, clock, budget, hist>>
    /\ IF thr[t].steal_capacity = 0
       THEN /\ thr' = [thr EXCEPT ![t].pc = "abort"]
            /\ obs' = [obs EXCEPT !.assert_failed = TRUE]
            /\ conn' = conn
       ELSE /\ obs' = obs
            /\ IF conn[ResField(thr[t].steal)] = thr[t].best_res
               THEN /\ conn' = [conn EXCEPT ![ResField(thr[t].steal)] = NewRes(thr[t])]
                    /\ thr' = [thr EXCEPT ![t].new_res = NewRes(thr[t]),
                                          ![t].cas = @ + 1,
                                          ![t].pc = "steal_sub"]
               ELSE /\ conn' = conn
                    /\ thr' = [thr EXCEPT ![t].new_res = NewRes(thr[t]),
                                          ![t].cas = @ + 1,
                                          ![t].pc = "giveup"]

\* The subsystem's reservation is not given back.
Steal_GiveUp_Keep(t) ==
    /\ thr[t].pc = "giveup"
    /\ thr' = [thr EXCEPT ![t].pc = "giveup_total"]
    /\ UNCHANGED <<conn, stats, cond, server, life, clock, budget, hist, obs>>

\* The CAS failed: the two reservations are given back, then "goto again".
Steal_GiveUp(t) ==
    /\ thr[t].pc = "giveup"
    /\ conn' = [conn EXCEPT ![ResField(thr[t].type)] =
                   @ - WT_RESERVATION_NS(thr[t].bytes, thr[t].capacity)]
    /\ thr' = [thr EXCEPT ![t].pc = "giveup_total"]
    /\ UNCHANGED <<stats, cond, server, life, clock, budget, hist, obs>>

Steal_GiveUpTotal(t) ==
    /\ thr[t].pc = "giveup_total"
    /\ conn' = [conn EXCEPT !.reservation_total =
                   @ - WT_RESERVATION_NS(thr[t].bytes, thr[t].total_capacity)]
    /\ thr' = [thr EXCEPT ![t].pc = "reserve", ![t].again = @ + 1]
    /\ UNCHANGED <<stats, cond, server, life, clock, budget, hist, obs>>

\* The stolen bytes are taken off the total's clock.
Steal_Sub_Total(t) ==
    /\ thr[t].pc = "steal_sub"
    /\ LET stolen_bytes == thr[t].steal_capacity \div 16
           res_value == conn.reservation_total -
                            WT_RESERVATION_NS(stolen_bytes, thr[t].capacity)
       IN  /\ conn' = [conn EXCEPT !.reservation_total = res_value]
           /\ thr' = [thr EXCEPT ![t].res_value = res_value, ![t].pc = "wait"]
    /\ UNCHANGED <<stats, cond, server, life, clock, budget, hist, obs>>

\* The CAS succeeded: the stolen bytes are taken off the caller's clock.
Steal_Sub(t) ==
    /\ thr[t].pc = "steal_sub"
    /\ LET stolen_bytes == thr[t].steal_capacity \div 16
           res_value == conn[ResField(thr[t].type)] -
                            WT_RESERVATION_NS(stolen_bytes, thr[t].capacity)
       IN  /\ conn' = [conn EXCEPT ![ResField(thr[t].type)] = res_value]
           /\ thr' = [thr EXCEPT ![t].res_value = res_value, ![t].pc = "wait"]
    /\ UNCHANGED <<stats, cond, server, life, clock, budget, hist, obs>>

(***************************************************************************)
(* The wait.  The throttle statistics (the *_throttles and *_time          *)
(* counters) are read by nothing and are not part of the state.            *)
(***************************************************************************)
\* The later of the two reservations.
WaitNs(l) == IF l.res_value < l.res_total_value THEN l.res_total_value
             ELSE l.res_value

\* The wait in nanoseconds taken for microseconds.
SleepUs_Ns(l) == WaitNs(l) - l.now_ns

SleepUs(l) == (WaitNs(l) - l.now_ns) \div WT_THOUSAND

Throttle_Wait(t) ==
    /\ thr[t].pc = "wait"
    /\ UNCHANGED <<conn, stats, cond, server, life, clock, budget, hist>>
    /\ IF WaitNs(thr[t]) > thr[t].now_ns
       THEN IF SleepUs(thr[t]) > WT_CAPACITY_SLEEP_CUTOFF_US
            THEN ThrottleReturn(t, "slept", SleepUs(thr[t]))
            ELSE ThrottleReturn(t, "short", SleepUs(thr[t]))
       ELSE ThrottleReturn(t, "nowait", 0)

(***************************************************************************)
(* The environment: the wall clock advances, recovery ends.                *)
(***************************************************************************)
Tick ==
    /\ budget.ticks > 0
    /\ budget' = [budget EXCEPT !.ticks = @ - 1]
    /\ clock' = clock + TickNs
    /\ UNCHANGED <<conn, stats, cond, server, life, thr, hist, obs>>

EndRecovery ==
    /\ RECOVERING \in conn.flags
    /\ conn' = [conn EXCEPT !.flags = @ \ {RECOVERING}]
    /\ UNCHANGED <<stats, cond, server, life, thr, clock, budget, hist, obs>>

(***************************************************************************)
(* The specification.                                                      *)
(***************************************************************************)
Lifecycle ==
    \/ \E total \in Totals : Create_Call(total)
    \/ Config_Total \/ Config_Ckpt \/ Config_Evict \/ Config_Log \/ Config_Read
    \/ Config_Threshold
    \/ Start_Flag \/ Start_Session \/ Start_Cond \/ Start_Thread \/ Start_TidSet
    \/ Destroy_Call \/ Destroy_ClearFlag \/ Destroy_Signal \/ Destroy_Join
    \/ Destroy_Cond \/ Destroy_Close \/ Destroy_Null

Server ==
    \/ Server_Wait \/ Server_RunChk \/ Server_Clear \/ Server_WrittenChk
    \/ Server_Fsync \/ Server_Store

\* A throttle call of the menu is made: a type and the bytes.
ThrottleCalls(menu) ==
    \E t \in Threads, c \in menu : Throttle_Call(t, c[1], c[2])

\* A step of a throttle call under way.
ThrottleSteps ==
    \E t \in Threads :
        \/ Throttle_Total(t) \/ Throttle_ExitChk(t) \/ Throttle_Written(t)
        \/ Throttle_StatWritten(t) \/ Throttle_StatRead(t)
        \/ Signal_Check(t) \/ Signal_Wake(t) \/ Signal_Publish(t)
        \/ Throttle_Epoch(t) \/ Reserve_Add(t) \/ Reserve_Drift(t)
        \/ Steal_Check(t) \/ Steal_ScanCkpt(t) \/ Steal_ScanEvict(t)
        \/ Steal_ScanLog(t) \/ Steal_ScanRead(t) \/ Steal_Cas(t)
        \/ Steal_GiveUp(t) \/ Steal_GiveUpTotal(t) \/ Steal_Sub(t)
        \/ Throttle_Wait(t)

Next ==
    \/ Lifecycle
    \/ Server
    \/ ThrottleCalls(Types \X Bytes)
    \/ ThrottleSteps
    \/ Tick
    \/ EndRecovery

\* The whole program.
Spec == Init /\ [][Next]_vars

(***************************************************************************)
(* The throttle without lifecycle calls.  The connection is as opened, or  *)
(* as a successful server_create of WT_THROTTLE_MIN left it, with the      *)
(* server in its wait.  In SpecThrottle the threads make any call while    *)
(* the server stays in its wait; in SpecFlush the server runs and the      *)
(* threads make the calls of FlushMenu.                                    *)
(***************************************************************************)
Configured(c, total) ==
    LET ckpt == WT_CAPACITY(total, WT_CAP_CKPT)
        evict == WT_CAPACITY(total, WT_CAP_EVICT)
        log == WT_CAPACITY(total, WT_CAP_LOG)
    IN  [c EXCEPT !.capacity_total = total, !.capacity_ckpt = ckpt,
                  !.capacity_evict = evict, !.capacity_log = log,
                  !.capacity_read = WT_CAPACITY(total, WT_CAP_READ),
                  !.capacity_threshold = CapacityThreshold(ckpt, evict, log),
                  !.flags = @ \cup {RUN}, !.capacity_session = "open",
                  !.capacity_cond = "alloc", !.capacity_tid_set = TRUE]

\* The connection after one checkpoint call of bytes at NowStart, made on
\* the configured connection c: the call found the two clocks more than a
\* second behind, and each drift store left its clock a slot past
\* NowStart - WT_BILLION; bytes at or over the threshold signalled the server.
Warm(c, bytes) ==
    [c EXCEPT !.capacity_written = bytes,
              !.capacity_signalled = bytes >= c.capacity_threshold,
              !.reservation_ckpt =
                  NowStart - WT_BILLION + WT_RESERVATION_NS(bytes, c.capacity_ckpt),
              !.reservation_total =
                  NowStart - WT_BILLION + WT_RESERVATION_NS(bytes, c.capacity_total)]

InitThrottle ==
    \/ InitFrom({ConnInit({})}, "none")
    \/ InitFrom({Warm(Configured(ConnInit({}), WT_THROTTLE_MIN), WarmBytes),
                 Configured(ConnInit({RECOVERING}), WT_THROTTLE_MIN)}, "wait")

NextThrottle ==
    \/ ThrottleCalls(Types \X Bytes)
    \/ ThrottleSteps
    \/ Tick
    \/ EndRecovery

SpecThrottle == InitThrottle /\ [][NextThrottle]_vars

FlushMenu == { <<"WT_THROTTLE_CKPT", 150000>>, <<"WT_THROTTLE_EVICT", 4096>>,
               <<"WT_THROTTLE_READ", 4096>> }

NextFlush ==
    \/ Server
    \/ ThrottleCalls(FlushMenu)
    \/ ThrottleSteps

SpecFlush == InitThrottle /\ [][NextFlush]_vars

(***************************************************************************)
(* The lifecycle calls and the server, without throttle calls under way:  *)
(* the connection is as opened, or configured with the server in its wait  *)
(* and the bytes of one earlier throttle call written.                     *)
(***************************************************************************)
InitLife ==
    \/ InitFrom({ConnInit({}), ConnInit({READONLY})}, "none")
    \/ InitFrom({Warm(Configured(ConnInit({}), WT_THROTTLE_MIN), b) : b \in Bytes},
                "wait")

NextLife ==
    \/ Lifecycle
    \/ Server

SpecLife == InitLife /\ [][NextLife]_vars

(***************************************************************************)
(* The throttle with its clocks close to the wall clock, so that calls     *)
(* steal and contend for a victim, while the server stays in its wait.     *)
(* The connection is as a successful server_create of WT_THROTTLE_MIN left *)
(* it, and then                                                            *)
(*  - a checkpoint call of StealBytes was made StealAgo before the start,  *)
(*    which leaves the checkpoint clock ahead of the wall clock; or        *)
(*  - an eviction call of EvictBytes was made at the start, which leaves   *)
(*    the eviction clock just behind the wall clock; or                    *)
(*  - a server_create of 0 followed: capacity_total is 0 and the           *)
(*    subsystems keep their capacities; or                                 *)
(*  - a checkpoint call of ShortBytes was made at the start and a          *)
(*    server_create of 0 followed: a checkpoint call of 4096 bytes then    *)
(*    reserves to less than the sleep cutoff after the wall clock.         *)
(***************************************************************************)
StealBytes == 150000
StealAgo == 20000000
EvictBytes == 600000
ShortBytes == 100766

\* The connection after one call of the type and bytes at the time at, made
\* on the configured connection c with its clocks at 0.
WarmAt(c, type, bytes, at) ==
    [c EXCEPT !.capacity_written = bytes,
              !.capacity_signalled = bytes >= c.capacity_threshold,
              ![ResField(type)] =
                  at - WT_BILLION + WT_RESERVATION_NS(bytes, c[CapField(type)]),
              !.reservation_total =
                  at - WT_BILLION + WT_RESERVATION_NS(bytes, c.capacity_total)]

\* The connection c after a successful server_create of 0.
Uncapped(c) == [c EXCEPT !.capacity_total = 0]

InitSteal ==
    \/ InitAfter(WarmAt(Configured(ConnInit({}), WT_THROTTLE_MIN),
                        "WT_THROTTLE_CKPT", StealBytes, NowStart - StealAgo),
                 "wait", "WT_THROTTLE_CKPT")
    \/ InitAfter(WarmAt(Configured(ConnInit({}), WT_THROTTLE_MIN),
                        "WT_THROTTLE_EVICT", EvictBytes, NowStart),
                 "wait", "WT_THROTTLE_EVICT")
    \/ InitAfter(Uncapped(Configured(ConnInit({}), WT_THROTTLE_MIN)),
                 "wait", "WT_THROTTLE_CKPT")
    \/ InitAfter(Uncapped(WarmAt(Configured(ConnInit({}), WT_THROTTLE_MIN),
                                 "WT_THROTTLE_CKPT", ShortBytes, NowStart)),
                 "wait", "WT_THROTTLE_CKPT")

StealMenu == { <<"WT_THROTTLE_CKPT", 4096>>, <<"WT_THROTTLE_CKPT", 150000>>,
               <<"WT_THROTTLE_EVICT", 150000>>, <<"WT_THROTTLE_READ", 4096>> }

NextSteal ==
    \/ ThrottleCalls(StealMenu)
    \/ ThrottleSteps

SpecSteal == InitSteal /\ [][NextSteal]_vars

(***************************************************************************)
(* Throttle calls beside the lifecycle calls and the server: the           *)
(* connection is as opened, or configured with the server in its wait and  *)
(* the bytes of one earlier throttle call written.  A throttle call is     *)
(* followed from its switch to its __wt_epoch, that is through the early   *)
(* exit, the signal and the assertions: all its reads of the configuration *)
(* and of capacity_cond; the reservations that follow touch neither.  One  *)
(* thread makes the throttle calls, beside the thread of the lifecycle     *)
(* calls and the server thread.                                            *)
(***************************************************************************)
InitReconfig ==
    \/ InitFrom({ConnInit({})}, "none")
    \/ InitFrom({Warm(Configured(ConnInit({}), WT_THROTTLE_MIN), WarmBytes)}, "wait")

ReconfigMenu == { <<"WT_THROTTLE_CKPT", 150000>>, <<"WT_THROTTLE_READ", 4096>> }

\* The thread that makes the throttle calls.
ReconfigThread == CHOOSE t \in Threads : TRUE

\* A step of a throttle call up to its __wt_epoch.
ThrottleHead ==
    \E t \in Threads :
        \/ Throttle_Total(t) \/ Throttle_ExitChk(t) \/ Throttle_Written(t)
        \/ Throttle_StatWritten(t) \/ Throttle_StatRead(t)
        \/ Signal_Check(t) \/ Signal_Wake(t) \/ Signal_Publish(t)
        \/ Throttle_Epoch(t)

NextReconfig ==
    \/ Lifecycle
    \/ Server
    \/ \E c \in ReconfigMenu : Throttle_Call(ReconfigThread, c[1], c[2])
    \/ ThrottleHead

SpecReconfig == InitReconfig /\ [][NextReconfig]_vars

\* No value of the model is negative or wraps.
TypeOK ==
    /\ \A f \in ResFields : conn[f] >= 0
    /\ conn.capacity_written >= 0
    /\ \A t \in Threads : thr[t].res_value >= 0 /\ thr[t].res_total_value >= 0

(***************************************************************************)
(* The same specifications under the scheduling of the threads: the server *)
(* thread, once created, keeps running, and so does the thread inside      *)
(* __wt_capacity_server_destroy.                                           *)
(***************************************************************************)
FairSpecFlush == SpecFlush /\ WF_vars(Server)

FairSpecLife == SpecLife /\ WF_vars(Server) /\ WF_vars(Destroy_Join)

(***************************************************************************)
(* The properties.                                                         *)
(***************************************************************************)
\* The indices of the lifecycle calls that have returned.
Returned == 1..Len(hist)

\* The positions of a throttle call in the order of the function's text.
ThrottleOrder ==
    << "idle", "total", "exit_chk", "written", "stat_written", "stat_read",
       "signal", "sig_wake", "sig_publish", "epoch", "reserve", "drift",
       "reserve_total", "drift_total", "steal_chk", "scan_ckpt", "scan_evict",
       "scan_log", "scan_read", "cas", "giveup", "giveup_total", "steal_sub",
       "wait", "abort", "returned" >>

ThrottlePos(pc, leaving) ==
    LET name == IF pc = "idle" /\ ~leaving THEN "returned" ELSE pc
    IN  CHOOSE i \in 1..Len(ThrottleOrder) : ThrottleOrder[i] = name

\* The jumps to "again", the reservation passes and the CASes of each call.
C1_Counted ==
    \A t \in Threads : thr[t].again <= 1 /\ thr[t].passes <= 2 /\ thr[t].cas <= 1

\* A step of a call moves it forward, or is its jump to "again".
C1_Forward ==
    \A t \in Threads :
        thr'[t] # thr[t] =>
            \/ ThrottlePos(thr'[t].pc, FALSE) > ThrottlePos(thr[t].pc, TRUE)
            \/ thr[t].pc = "giveup_total" /\ thr'[t].again = thr[t].again + 1

\* C1: a throttle call jumps to "again" at most once, so it makes at most two
\* reservation passes and at most one steal CAS; and it has no loop: every
\* step of a call other than that jump moves it forward in the function, so
\* it reaches its wait and returns however the other threads interleave.
C1_StealRetriedAtMostOnce == []C1_Counted /\ [][C1_Forward]_vars

\* C1 witness: a call whose CAS failed has gone round again and is at its wait.
C1_Witness ==
    \E t \in Threads :
        thr[t].pc = "wait" /\ thr[t].again = 1 /\ thr[t].passes = 2 /\ thr[t].cas = 1

\* C2: between two clears of capacity_signalled by the server, the condition
\* is woken at most once, however many calls of __wt_capacity_signal there are.
C2_WokenAtMostOnce == obs.wakes <= 1

\* C3 as stated: once every call has returned, capacity_bytes_written is the
\* sum of the bytes of all the non-READ throttle calls made.
C3_AllNonReadBytesCounted ==
    (\A t \in Threads : thr[t].pc = "idle") =>
        stats.capacity_bytes_written = obs.nonread_bytes

\* The bytes of a call that is past the early exit and has yet to count them.
UncountedBytes(t) ==
    IF thr[t].pc \in {"written", "stat_written"} THEN thr[t].bytes ELSE 0

\* Those bytes, over the calls of the threads of S.
RECURSIVE UncountedSum(_)
UncountedSum(S) ==
    IF S = {} THEN 0
    ELSE LET t == CHOOSE u \in S : TRUE
         IN  UncountedBytes(t) + UncountedSum(S \ {t})

\* C3: capacity_bytes_written is the sum of the bytes of the non-READ throttle
\* calls that did not take the early exit (and have counted their bytes).
C3_BytesPastEarlyExitCounted ==
    stats.capacity_bytes_written + UncountedSum(Threads)
        = obs.accounted_bytes

\* C3 witness: all calls have returned, a non-READ call left early, another
\* was counted.
C3_Witness ==
    /\ \A t \in Threads : thr[t].pc = "idle"
    /\ obs.nonread_bytes > obs.accounted_bytes
    /\ stats.capacity_bytes_written > WarmBytes

\* The statistics of the switch on the type.
CallCounters ==
    {"capacity_ckpt_calls", "capacity_evict_calls", "capacity_log_calls",
     "capacity_read_calls"}

\* A step of a call that is not past its early-exit test.
C10_Step ==
    \A t \in Threads :
        (thr'[t] # thr[t] /\ thr[t].pc \in {"idle", "total", "exit_chk"}) =>
            /\ conn' = conn
            /\ cond' = cond
            /\ obs'.wakes = obs.wakes
            /\ \A f \in (DOMAIN stats) \ CallCounters : stats'[f] = stats[f]
            /\ ( /\ thr[t].pc = "exit_chk"
                 /\ \/ thr[t].capacity = 0 /\ thr[t].total_capacity = 0
                    \/ RECOVERING \in conn.flags )
               => /\ thr'[t].pc = "idle"
                  /\ obs'.last = [how |-> "early", sleep_us |-> 0]

\* C10: the steps of a throttle call up to and including its early-exit test
\* change no reservation clock, not capacity_written, not capacity_signalled,
\* no statistic but the subsystem's call counter, and do not signal the
\* server; and when the capacity and the total capacity the call has read are
\* both 0, or the connection is recovering, the call returns from that test
\* without sleeping.
C10_EarlyExitHasNoSideEffect == [][C10_Step]_vars

\* C10 witness: a call has left early during recovery, on a connection with
\* capacities configured; only its call counter shows it.
C10_Witness ==
    /\ obs.last.how = "early"
    /\ RECOVERING \in conn.flags
    /\ conn.capacity_total # 0
    /\ obs.nonread_bytes > 0
    /\ conn.capacity_written = 0
    /\ \A f \in ResFields : conn[f] = 0

\* Over the threshold with the server running leads to the store of 0, or
\* to the panic of a failed fsync.
C4_Flushes ==
    (conn.capacity_written > conn.capacity_threshold
        /\ server.pc \notin {"none", "exited", "panic"})
    ~> (conn.capacity_written = 0 \/ server.pc = "panic")

\* The store is reached from an fsync that returned 0, and stores 0.
C4_FsyncThenStore ==
    /\ (server'.pc = "store" /\ server.pc # "store") =>
           (server.pc = "fsync" /\ obs'.fsyncs = obs.fsyncs + 1)
    /\ (server.pc = "store" /\ server'.pc # "store") =>
           conn'.capacity_written = 0

C5_JoinCompletes == (life.pc = "d_join") ~> (life.pc # "d_join")

\* The server's exit at its run check, its join, and the state destroy
\* returns with.
C5_Step ==
    /\ (server.pc = "run_chk" /\ RUN \notin conn.flags /\ server' # server) =>
           server'.pc = "exited"
    /\ (server.pc = "exited" /\ server' # server) => server'.pc = "none"
    /\ (life.pc = "d_null" /\ life' # life) =>
           /\ RUN \notin conn'.flags
           /\ conn'.capacity_session = NULL
           /\ conn'.capacity_cond = NULL
           /\ ~conn'.capacity_tid_set
           /\ conn'.capacity_usecs = 0
           /\ server'.pc = "none"

\* C5: a destroy that joins the server gets past the join; a server that
\* wakes up with the run flag clear returns without a flush; and when destroy
\* returns, the run flag is clear and capacity_session, capacity_cond,
\* capacity_tid_set and capacity_usecs are NULL, NULL, false and 0.
C5_DestroyStopsServer == C5_JoinCompletes /\ [][C5_Step]_vars

\* C5 witness: a destroy called with the server running has returned.
C5_Witness ==
    \E i \in Returned :
        /\ hist[i].op = "destroy"
        /\ hist[i].pre.task /\ hist[i].pre.run
        /\ ~hist[i].post.task

\* C6: a server_create refused for its total leaves capacity_total, the
\* subsystem capacities, the threshold, the run flag and the server as they were.
C6_RefusedCreateChangesNothing ==
    \A i \in Returned :
        (hist[i].op = "create" /\ hist[i].ret = "EINVAL") =>
            /\ hist[i].post.capacity_total = hist[i].pre.capacity_total
            /\ hist[i].post.capacity_ckpt = hist[i].pre.capacity_ckpt
            /\ hist[i].post.capacity_evict = hist[i].pre.capacity_evict
            /\ hist[i].post.capacity_log = hist[i].pre.capacity_log
            /\ hist[i].post.capacity_read = hist[i].pre.capacity_read
            /\ hist[i].post.capacity_threshold = hist[i].pre.capacity_threshold
            /\ hist[i].post.run = hist[i].pre.run
            /\ hist[i].post.task = hist[i].pre.task

\* C7: after a server_create that returned an error, the server thread exists
\* exactly when the run flag is set, and without a thread there is no
\* capacity_session and no capacity_cond.
C7_NoHalfStartedServer ==
    \A i \in Returned :
        (hist[i].op = "create" /\ hist[i].ret = "error") =>
            /\ hist[i].post.run <=> hist[i].post.task
            /\ ~hist[i].post.task => (~hist[i].post.session /\ ~hist[i].post.cond)

\* Two server_create calls in a row, both returning 0, with the same total,
\* on a connection that is not read-only.
SameTotalTwice(i) ==
    /\ i + 1 \in Returned
    /\ READONLY \notin conn.flags
    /\ hist[i].op = "create" /\ hist[i].ret = "0"
    /\ hist[i + 1].op = "create" /\ hist[i + 1].ret = "0"
    /\ hist[i + 1].total = hist[i].total

SameCapacities(a, b) ==
    /\ a.capacity_total = b.capacity_total
    /\ a.capacity_ckpt = b.capacity_ckpt
    /\ a.capacity_evict = b.capacity_evict
    /\ a.capacity_log = b.capacity_log
    /\ a.capacity_read = b.capacity_read
    /\ a.capacity_threshold = b.capacity_threshold

\* C8 as stated: for every accepted total, the second of two such calls
\* leaves the capacities and the threshold of the first, and a server running.
C8_ReconfigureLeavesServer ==
    \A i \in Returned :
        SameTotalTwice(i) =>
            /\ SameCapacities(hist[i + 1].post, hist[i].post)
            /\ hist[i + 1].post.task /\ hist[i + 1].post.run

\* C8: for every accepted total, the second of two such calls leaves the
\* capacities and the threshold of the first, and leaves a server running
\* exactly when that threshold is not 0, as it is for every total but 0.
C8_ReconfigureSameTotal ==
    \A i \in Returned :
        SameTotalTwice(i) =>
            /\ SameCapacities(hist[i + 1].post, hist[i].post)
            /\ hist[i + 1].post.task <=> hist[i + 1].post.capacity_threshold # 0
            /\ hist[i + 1].post.run <=> hist[i + 1].post.task
            /\ hist[i].total # 0 => hist[i + 1].post.task

\* C8 witness: the second call has stopped the server of the first and
\* started another.
C8_Witness ==
    \E i \in Returned :
        /\ SameTotalTwice(i)
        /\ hist[i].total = WT_THROTTLE_MIN
        /\ hist[i + 1].pre.task
        /\ hist[i + 1].post.task

\* The step of __capacity_config that stores the threshold stores this one.
C9_Stored(threshold) ==
    (life.pc = "cfg_threshold" /\ life' # life) =>
        conn'.capacity_threshold = threshold

\* C9 as stated: the threshold __capacity_config stores is the sum of the
\* checkpoint, eviction and log capacities times 10, divided by 100.
C9_ThresholdMultiplyFirst ==
    [][C9_Stored(((conn.capacity_ckpt + conn.capacity_evict + conn.capacity_log)
                    * 10) \div 100)]_vars

\* C9: the threshold __capacity_config stores is the sum of the checkpoint,
\* eviction and log capacities divided by 100, times 10.
C9_ThresholdDivideFirst ==
    [][C9_Stored(((conn.capacity_ckpt + conn.capacity_evict + conn.capacity_log)
                    \div 100) * 10)]_vars

\* C9 witness: a configure of WT_THROTTLE_MIN has stored a threshold one
\* below the one of the multiplication first.
C9_Witness ==
    /\ life.pc = "start"
    /\ conn.capacity_total = WT_THROTTLE_MIN
    /\ conn.capacity_ckpt + conn.capacity_evict + conn.capacity_log = 943717
    /\ conn.capacity_threshold = 94370

(***************************************************************************)
(* The reservation clocks.                                                 *)
(***************************************************************************)
\* Thread t takes a step.
Steps(t) == thr'[t] # thr[t]

\* Thread u holds, in res_value or res_total_value, the value its atomic add
\* on the clock f returned in the current pass of its call.
HoldsAdd(u, f) ==
    \/ /\ thr[u].pc # "idle"
       /\ f = ResField(thr[u].type)
       /\ thr[u].capacity # 0
       /\ \/ thr[u].pc \in {"drift", "reserve_total", "drift_total", "steal_chk",
                            "scan_ckpt", "scan_evict", "scan_log", "scan_read",
                            "cas", "giveup", "steal_sub"}
          \/ thr[u].pc = "wait" /\ ~(thr[u].cas = 1 /\ thr[u].again = 0)
    \/ /\ f = "reservation_total"
       /\ thr[u].total_capacity # 0
       /\ thr[u].pc \in {"drift_total", "steal_chk", "scan_ckpt", "scan_evict",
                         "scan_log", "scan_read", "cas", "giveup",
                         "giveup_total", "steal_sub", "wait"}

HeldAdd(u, f) ==
    IF f = "reservation_total" THEN thr[u].res_total_value ELSE thr[u].res_value

\* A step of the total's reserve by a call that read a total capacity of 0.
C11_Step ==
    /\ conn.capacity_total = 0 => conn'.reservation_total = conn.reservation_total
    /\ \A t \in Threads :
           (Steps(t) /\ thr[t].pc = "reserve_total" /\ thr[t].total_capacity = 0) =>
               /\ thr'[t].res_total_value = thr[t].now_ns
               /\ thr'[t].pc = "steal_chk"
           
\* C11: while capacity_total is 0 no step of a throttle call changes
\* reservation_total: the total's reserve returns now_ns and leaves the clock,
\* and the call goes on to its steal test, which fails.
C11_TotalClockUntouched == [][C11_Step]_vars

\* C11 witness: with capacity_total 0 and the subsystem's capacity not 0, a
\* call has reserved on its subsystem's clock and is at its wait, the total's
\* clock still 0.
C11_Witness ==
    /\ conn.capacity_total = 0
    /\ conn.reservation_total = 0
    /\ \E t \in Threads :
           /\ thr[t].pc = "wait"
           /\ thr[t].capacity # 0
           /\ conn[ResField(thr[t].type)] > 0
           /\ thr[t].res_total_value = thr[t].now_ns

\* C12 as stated: a step that lowers a reservation clock is a drift store on
\* that clock.
C12_OnlyDriftLowers ==
    [][\A f \in ResFields :
          conn'[f] < conn[f] =>
              \E t \in Threads :
                  /\ Steps(t)
                  /\ thr[t].pc \in {"drift", "drift_total"}
                  /\ ReserveField(t) = f]_vars

\* C12: a step that lowers a reservation clock is a drift store on that
\* clock, or a call giving back its own slot on its subsystem's clock or on
\* the total's after a failed CAS, or a call taking the stolen time off its
\* subsystem's clock after a successful one; the atomic adds and the CAS on
\* the victim's clock never lower a clock.
C12_WhatLowersAClock ==
    [][\A f \in ResFields :
          conn'[f] < conn[f] =>
              \E t \in Threads :
                  /\ Steps(t)
                  /\ \/ thr[t].pc \in {"drift", "drift_total"} /\ ReserveField(t) = f
                     \/ thr[t].pc \in {"giveup", "steal_sub"} /\ ResField(thr[t].type) = f
                     \/ thr[t].pc = "giveup_total" /\ f = "reservation_total"]_vars

\* C12 witness: a call has stolen and taken the stolen time off its clock:
\* the clock is below the value the call's add had left.
C12_Witness ==
    \E t \in Threads :
        /\ thr[t].pc = "wait" /\ thr[t].cas = 1 /\ thr[t].again = 0
        /\ conn[ResField(thr[t].steal)] = thr[t].new_res
        /\ thr[t].res_value < thr[t].now_ns

\* C13: the value an atomic add on a subsystem's clock returns is above the
\* value that another thread's earlier add on that clock returned.
C13_AddsStrictlyIncrease ==
    [][\A t, u \in Threads :
          ( /\ t # u
            /\ Steps(t)
            /\ thr[t].pc = "reserve"
            /\ ReserveCapacity(t) # 0
            /\ HoldsAdd(u, ReserveField(t)) )
          => conn'[ReserveField(t)] > HeldAdd(u, ReserveField(t))]_vars

(***************************************************************************)
(* The contested steal.                                                    *)
(***************************************************************************)
\* Thread t has done the CAS of its call; it won it, or it lost it.
TriedSteal(t) == thr[t].pc # "idle" /\ thr[t].cas >= 1
WonSteal(t) ==
    TriedSteal(t) /\ thr[t].again = 0 /\ thr[t].pc \notin {"giveup", "giveup_total"}
LostSteal(t) == TriedSteal(t) /\ ~WonSteal(t)

\* Two calls of one subsystem have both done their CAS on the same victim
\* with the same observed value.
Contested(t, u) ==
    /\ t # u
    /\ TriedSteal(t) /\ TriedSteal(u)
    /\ thr[t].type = thr[u].type
    /\ thr[t].steal = thr[u].steal
    /\ thr[t].best_res = thr[u].best_res

\* The steps of the call that lost its CAS.
C14_LoserStep(t) ==
    /\ thr[t].pc = "giveup" =>
           conn'[ResField(thr[t].type)] = conn[ResField(thr[t].type)] -
               WT_RESERVATION_NS(thr[t].bytes, thr[t].capacity)
    /\ thr[t].pc = "giveup_total" =>
           /\ conn'.reservation_total = conn.reservation_total -
                  WT_RESERVATION_NS(thr[t].bytes, thr[t].total_capacity)
           /\ thr'[t].pc = "reserve"
    /\ (thr[t].again = 1 /\ thr[t].pc \in {"reserve", "reserve_total"}) =>
           conn'[ReserveField(t)] = conn[ReserveField(t)] +
               WT_RESERVATION_NS(thr[t].bytes, ReserveCapacity(t))
    /\ (thr[t].again = 1 /\ thr[t].pc = "steal_chk") => thr'[t].pc = "wait"
    /\ (thr[t].again = 1 /\ thr[t].pc = "wait") =>
           (obs'.last.how \in {"slept", "short"} <=> WaitNs(thr[t]) > thr[t].now_ns)

\* C14 as stated, its last part: the call that lost the CAS and reserved
\* again has a wait target later than now_ns.
C14_LoserSleeps ==
    \A t \in Threads :
        (thr[t].pc = "wait" /\ thr[t].again = 1) => WaitNs(thr[t]) > thr[t].now_ns

\* C14: of two calls of one subsystem that did their CAS on the same victim
\* with the same observed value exactly one won; the call that lost takes its
\* own slot off its subsystem's clock and off the total's, reserves again by
\* adding the same slots, does no second CAS, and waits exactly when its new
\* target is later than now_ns.
C14_ContestedSteal ==
    /\ [](\A t, u \in Threads :
             Contested(t, u) => (WonSteal(t) <=> LostSteal(u)))
    /\ [](\A t \in Threads : thr[t].cas <= 1 /\ thr[t].again <= 1)
    /\ [][\A t \in Threads : (Steps(t) /\ LostSteal(t)) => C14_LoserStep(t)]_vars

\* C14 witness: two calls were in a contested steal, one won, and the one
\* that lost has reserved again and is at its wait with a target that is not
\* later than now_ns.
C14_Witness ==
    \E t, u \in Threads :
        /\ Contested(t, u)
        /\ WonSteal(u)
        /\ thr[t].pc = "wait" /\ thr[t].again = 1
        /\ WaitNs(thr[t]) <= thr[t].now_ns

(***************************************************************************)
(* The drift store and the steal's new reservation.                        *)
(***************************************************************************)
\* C15: a drift store on a clock does not put the clock below the value that
\* another thread's atomic add on that clock returned and that the thread
\* still holds.
C15_DriftKeepsOthersAdds ==
    [][\A t, u \in Threads :
          ( /\ t # u
            /\ Steps(t)
            /\ thr[t].pc \in {"drift", "drift_total"}
            /\ HoldsAdd(u, ReserveField(t)) )
          => conn'[ReserveField(t)] >= HeldAdd(u, ReserveField(t))]_vars

\* C16: a successful CAS of a steal is on the clock of a subsystem other than
\* the caller's, the value it replaces is more than half a second behind
\* now_ns, and the value it stores is not ahead of now_ns.
C16_StealLeavesVictimBehindNow ==
    [][\A t \in Threads :
          (Steps(t) /\ thr[t].pc = "cas" /\ thr'[t].pc = "steal_sub") =>
              /\ thr[t].steal # thr[t].type
              /\ conn[ResField(thr[t].steal)] < thr[t].now_ns - WT_BILLION \div 2
              /\ conn'[ResField(thr[t].steal)] <= thr[t].now_ns]_vars

(***************************************************************************)
(* The wait.                                                               *)
(***************************************************************************)
\* The later of two values.
Later(a, b) == IF a < b THEN b ELSE a

\* The wait step of a call, from the call's locals: sleep_us is computed when
\* the target is later than now_ns, and is then the whole microseconds of the
\* difference.
C17_WaitStep(t) ==
    LET target == Later(thr[t].res_value, thr[t].res_total_value)
        sleep_us == (target - thr[t].now_ns) \div WT_THOUSAND
    IN  /\ target > thr[t].now_ns =>
            /\ obs'.last.sleep_us = sleep_us
            /\ sleep_us >= 0
            /\ sleep_us * WT_THOUSAND <= target - thr[t].now_ns
            /\ obs'.last.how = IF sleep_us > WT_CAPACITY_SLEEP_CUTOFF_US
                               THEN "slept" ELSE "short"
        /\ target <= thr[t].now_ns => obs'.last = [how |-> "nowait", sleep_us |-> 0]

\* C17: a call computes sleep_us only when the later of its two reservations
\* is later than now_ns, as the whole microseconds between the two, never
\* below 0, and sleeps exactly when sleep_us is above the cutoff; no clock and
\* no reservation of a call is below 0, so that no subtraction wraps around.
C17_NoNegativeSleep ==
    /\ [](obs.last.sleep_us >= 0)
    /\ [](\A f \in ResFields : conn[f] >= 0)
    /\ [](\A t \in Threads : thr[t].res_value >= 0 /\ thr[t].res_total_value >= 0)
    /\ [][\A t \in Threads : (Steps(t) /\ thr[t].pc = "wait") => C17_WaitStep(t)]_vars

\* C17 witness: a call has returned after a wait below the cutoff, without
\* sleeping, and another call is at its wait with a sleep above the cutoff.
C17_Witness ==
    /\ obs.last.how = "short"
    /\ obs.last.sleep_us > 0
    /\ obs.last.sleep_us <= WT_CAPACITY_SLEEP_CUTOFF_US
    /\ \E t \in Threads :
           /\ thr[t].pc = "wait"
           /\ Later(thr[t].res_value, thr[t].res_total_value) > thr[t].now_ns
           /\ (Later(thr[t].res_value, thr[t].res_total_value) - thr[t].now_ns)
                  \div WT_THOUSAND > WT_CAPACITY_SLEEP_CUTOFF_US

(***************************************************************************)
(* A total of 0, and the calls that run beside a change of configuration.  *)
(***************************************************************************)
\* C18: a server_create of 0 that returned 0 on a connection that is not
\* read-only leaves the four subsystem capacities and the threshold at 0 and
\* no server, so that a throttle call of any subsystem takes the early exit.
C18_CreateZeroUncaps ==
    \A i \in Returned :
        ( /\ hist[i].op = "create" /\ hist[i].ret = "0" /\ hist[i].total = 0
          /\ READONLY \notin conn.flags ) =>
            /\ hist[i].post.capacity_total = 0
            /\ hist[i].post.capacity_ckpt = 0
            /\ hist[i].post.capacity_evict = 0
            /\ hist[i].post.capacity_log = 0
            /\ hist[i].post.capacity_read = 0
            /\ hist[i].post.capacity_threshold = 0
            /\ ~hist[i].post.task
            /\ EarlyExit(hist[i].post.capacity_ckpt, hist[i].post.capacity_total, {})

\* C19: a throttle call that is past its early exit read a capacity of its
\* subsystem that is not 0, so that the assertion "capacity != 0" holds.
C19_CapacityAssertionHolds ==
    /\ ~obs.assert_failed
    /\ \A t \in Threads :
           thr[t].pc \notin {"idle", "total", "exit_chk"} => thr[t].capacity # 0

\* C20: __wt_capacity_signal has not applied __wt_cond_signal to a
\* capacity_cond that is NULL, and a call about to apply it finds a
\* capacity_cond that is not NULL.
C20_SignalOnLiveCond ==
    /\ ~obs.null_signal
    /\ \A t \in Threads : thr[t].pc = "sig_wake" => conn.capacity_cond # NULL

=============================================================================
